---- MODULE Spec2Model ----
(***************************************************************************)
(* Model of src/lib.rs (CornPlugin): the startup systems, the scene-ready  *)
(* observer play_animation_when_ready and the per-frame system             *)
(* draw_mesh_intersections, over an entity/component world.                *)
(*                                                                         *)
(* Three specifications share the state:                                   *)
(*   Spec      the application: startup, scene instantiation by the        *)
(*             engine, SceneInstanceReady notifications, frames;           *)
(*   SpecObs   the observer applied to any target of any small world;      *)
(*   SpecDraw  the per-frame drawing system over any pointer results.      *)
(***************************************************************************)
EXTENDS Integers, Sequences, FiniteSets, TLC

\* ------------------------------------------------------------- bounds
MaxEntities == 5   \* entity ids of Spec: camera, factory, corn, scene nodes
ObsEntities == 3   \* entities of a world of SpecObs
MaxFires    == 2   \* SceneInstanceReady notifications per scene root
NumClips    == 2   \* animation node indices a player can have active
MaxPointers == 2   \* pointers with a PointerInteraction
MaxHits     == 2   \* hits of one PointerInteraction

Entities == 1..MaxEntities
Indices  == 1..NumClips

\* ------------------------------------------------------------- constants
FACTORY == "factory.glb"
CORN    == "corn.glb"
NoScene == ""

\* AnimationGraph::from_clip adds the clip as the first node under the root
\* (node 0) and returns that node's index.
FromClipIndex == 1

VARIABLES
    alive,       \* entities spawned so far
    sceneRoot,   \* SceneRoot component: the asset path, NoScene when absent
    marker,      \* AnimationToPlay component
    observers,   \* entities play_animation_when_ready is registered on
    parent,      \* ChildOf: the parent entity, 0 for a root
    player,      \* AnimationPlayer component
    graph,       \* AnimationGraphHandle component: the handle, 0 when absent
    cameras,     \* entities carrying the camera bundle
    graphs,      \* Assets<AnimationGraph>: the handles stored
    fired,       \* SceneInstanceReady notifications delivered per entity
    bodyRuns,    \* times the observer's body ran for a notified entity
    meshDone,    \* setup_mesh_and_animation has run
    cameraDone,  \* setup_camera_and_environment has run
    lastTarget,  \* trigger.target() of the latest observer run, 0 if none
    lastBody,    \* whether the latest observer run entered its body
    panicked,    \* an observer run panicked
    pointers,    \* this frame's PointerInteraction per pointer
    gizmos       \* this frame's gizmo draw calls

sceneVars == <<alive, sceneRoot, marker, observers, parent, player, graph,
               cameras, graphs, fired, bodyRuns, meshDone, cameraDone,
               lastTarget, lastBody, panicked>>
vars == <<alive, sceneRoot, marker, observers, parent, player, graph,
          cameras, graphs, fired, bodyRuns, meshDone, cameraDone,
          lastTarget, lastBody, panicked, pointers, gizmos>>

\* ------------------------------------------------------------- components
\* struct AnimationToPlay { graph_handle, index }
AnimationToPlay(h, i) == [present |-> TRUE, graph_handle |-> h, index |-> i]
NoMarker == [present |-> FALSE, graph_handle |-> 0, index |-> 0]

\* ActiveAnimation: one entry of AnimationPlayer's active_animations map.
Inactive == [on |-> FALSE, repeat |-> "Never", completions |-> 0, seek |-> 0]
DefaultActive == [on |-> TRUE, repeat |-> "Never", completions |-> 0, seek |-> 0]

NoPlayer == [has |-> FALSE, active |-> [i \in Indices |-> Inactive]]
DefaultPlayer == [has |-> TRUE, active |-> [i \in Indices |-> Inactive]]

\* ActiveAnimation::is_finished: a Forever animation never is.
IsFinished(a) == a.repeat = "Never" /\ a.completions >= 1

\* ActiveAnimation::replay
Replay(a) == [a EXCEPT !.completions = 0, !.seek = 0]

\* A plausible bug: a second play command toggles the clip off.
PlayToggle(p, i) ==
    IF p.active[i].on
        THEN [p EXCEPT !.active[i] = Inactive]
        ELSE [p EXCEPT !.active[i] = DefaultActive]

\* player.play(index): active_animations.entry(index).or_default(), replayed
\* when it had finished; an animation already playing is left as it is.
Play(p, i) ==
    LET a == IF p.active[i].on THEN p.active[i] ELSE DefaultActive
    IN  [p EXCEPT !.active[i] = IF IsFinished(a) THEN Replay(a) ELSE a]

\* .repeat() on the ActiveAnimation that play returned
Repeat(p, i) == [p EXCEPT !.active[i].repeat = "Forever"]

\* ------------------------------------------------------------- hierarchy
RECURSIVE DescendantIter(_, _)
DescendantIter(frontier, seen) ==
    IF frontier = {} THEN seen
    ELSE LET next == {c \in Entities : parent[c] \in frontier}
         IN  DescendantIter(next, seen \cup next)

\* Plausible bugs: only the direct children; the target itself included.
DirectChildren(e) == {c \in Entities : parent[c] = e}
DescendantsAndSelf(e) == DescendantIter({e}, {e})

\* children.iter_descendants(e): every entity below e, e itself excluded.
Descendants(e) == DescendantIter({e}, {})

\* ------------------------------------------------------------- queries
\* A plausible bug: a default marker stands in for a missing one.
QueryMarkerOrDefault(e) ==
    IF marker[e].present THEN [ok |-> TRUE, value |-> marker[e]]
    ELSE [ok |-> TRUE, value |-> AnimationToPlay(1, FromClipIndex)]

\* A plausible bug: a single-shot guard, the lookup succeeding only the first
\* time the body runs for e.
QueryMarkerOnce(e) ==
    [ok |-> marker[e].present /\ bodyRuns[e] = 0, value |-> marker[e]]

\* animations_to_play.get(e)
QueryMarker(e) == [ok |-> marker[e].present, value |-> marker[e]]

\* players.get_mut(e) is Ok
QueryPlayer(e) == player[e].has

\* The descendants of target the loop body runs for.
Matched(target) ==
    IF QueryMarker(target).ok
        THEN {c \in Descendants(target) : QueryPlayer(c)}
        ELSE {}

\* commands.entity(child).insert(AnimationGraphHandle(graph_handle.clone())),
\* queued once per matched child.
QueuedInserts(target) ==
    {[entity |-> c, handle |-> QueryMarker(target).value.graph_handle] :
        c \in Matched(target)}

\* The command queue applied to the AnimationGraphHandle components.
ApplyInserts(g, cmds) ==
    [e \in Entities |->
        IF \E c \in cmds : c.entity = e
            THEN (CHOOSE c \in cmds : c.entity = e).handle
            ELSE g[e]]

\* A plausible bug: the observer consumes (removes) the marker it read.
MarkerConsumed(target) == [marker EXCEPT ![target] = NoMarker]

\* The observer reads the marker through Query<&AnimationToPlay>.
MarkerAfter(target) == marker

\* A plausible bug: get_mut(child).unwrap() panics on a child with no player.
PanicOnMissingPlayer(target) ==
    QueryMarker(target).ok
        /\ \E c \in Descendants(target) : ~player[c].has

\* if let Ok(..) skips every failed lookup: no path of the observer panics.
ObserverPanics(target) == FALSE

\* ------------------------------------------------------------- observer
play_animation_when_ready(target) ==
    /\ LET matched == Matched(target)
           index == QueryMarker(target).value.index
       IN  player' = [e \in Entities |->
                IF e \in matched
                    THEN Repeat(Play(player[e], index), index)
                    ELSE player[e]]
    /\ graph' = ApplyInserts(graph, QueuedInserts(target))
    /\ marker' = MarkerAfter(target)
    /\ panicked' = (panicked \/ ObserverPanics(target))
    /\ lastTarget' = target
    /\ lastBody' = QueryMarker(target).ok

\* ------------------------------------------------------------- drawing
HitValues == [position : 0..1, normal : 0..1]   \* 0: None

\* A plausible bug: the farthest hit is taken.
get_farthest_hit(hits) == IF hits = <<>> THEN <<>> ELSE <<hits[Len(hits)]>>

\* interaction.get_nearest_hit(): the first of the hits sorted by depth.
get_nearest_hit(hits) == IF hits = <<>> THEN <<>> ELSE <<hits[1]>>

\* hit.position.zip(hit.normal)
PositionZipNormal(hit) ==
    IF hit.position # 0 /\ hit.normal # 0
        THEN <<[point |-> hit.position, normal |-> hit.normal]>>
        ELSE <<>>

Sphere(point) ==
    [kind |-> "sphere", at |-> point, normal |-> 0, color |-> "RED_500"]
Arrow(point, normal) ==
    [kind |-> "arrow", at |-> point, normal |-> normal, color |-> "PINK_100"]

\* The loop body for one pointer: both filter_maps, then sphere and arrow.
DrawPointer(hits) ==
    LET near == get_nearest_hit(hits)
        pn == IF near = <<>> THEN <<>> ELSE PositionZipNormal(near[1])
    IN  IF pn = <<>> THEN <<>>
        ELSE <<Sphere(pn[1].point), Arrow(pn[1].point, pn[1].normal)>>

RECURSIVE DrawFrom(_, _)
DrawFrom(ps, i) ==
    IF i > Len(ps) THEN <<>> ELSE DrawPointer(ps[i]) \o DrawFrom(ps, i + 1)

\* Gizmos are immediate mode: a frame's buffer holds that frame's calls only.
draw_mesh_intersections == gizmos' = DrawFrom(pointers', 1)

\* ------------------------------------------------------------- startup
NextEntity == Cardinality(alive) + 1
started == meshDone /\ cameraDone

\* A plausible bug: the marker is spawned on an entity of its own.
setup_mesh_split ==
    /\ ~meshDone
    /\ NextEntity + 1 \in Entities
    /\ LET h == Cardinality(graphs) + 1
           f == NextEntity
           c == NextEntity + 1
       IN  /\ graphs' = graphs \cup {h}
           /\ marker' = [marker EXCEPT ![c] = AnimationToPlay(h, FromClipIndex)]
           /\ sceneRoot' = [sceneRoot EXCEPT ![f] = FACTORY, ![c] = CORN]
           /\ observers' = observers \cup {f}
           /\ alive' = alive \cup {f, c}
    /\ meshDone' = TRUE
    /\ UNCHANGED <<parent, player, graph, cameras, fired, bodyRuns, cameraDone,
                   lastTarget, lastBody, panicked, pointers, gizmos>>

setup_mesh_and_animation ==
    /\ ~meshDone
    /\ NextEntity + 1 \in Entities
    /\ LET h == Cardinality(graphs) + 1     \* graphs.add(graph)
           f == NextEntity                  \* spawn((animation_to_play, mesh_scene))
           c == NextEntity + 1              \* spawn((SceneRoot(corn), Transform))
       IN  /\ graphs' = graphs \cup {h}
           /\ marker' = [marker EXCEPT ![f] = AnimationToPlay(h, FromClipIndex)]
           /\ sceneRoot' = [sceneRoot EXCEPT ![f] = FACTORY, ![c] = CORN]
           /\ observers' = observers \cup {f}
           /\ alive' = alive \cup {f, c}
    /\ meshDone' = TRUE
    /\ UNCHANGED <<parent, player, graph, cameras, fired, bodyRuns, cameraDone,
                   lastTarget, lastBody, panicked, pointers, gizmos>>

setup_camera_and_environment ==
    /\ ~cameraDone
    /\ NextEntity \in Entities
    /\ cameras' = cameras \cup {NextEntity}
    /\ alive' = alive \cup {NextEntity}
    /\ cameraDone' = TRUE
    /\ UNCHANGED <<sceneRoot, marker, observers, parent, player, graph, graphs,
                   fired, bodyRuns, meshDone, lastTarget, lastBody, panicked,
                   pointers, gizmos>>

\* ------------------------------------------------------------- engine
\* The scene spawner instantiates one more entity of the scene of root r,
\* under r or under a node already spawned, with or without a player.
SpawnSceneNode(r, p, hasPlayer) ==
    /\ started
    /\ r \in alive /\ sceneRoot[r] # NoScene /\ fired[r] = 0
    /\ p \in {r} \cup Descendants(r)
    /\ NextEntity \in Entities
    /\ alive' = alive \cup {NextEntity}
    /\ parent' = [parent EXCEPT ![NextEntity] = p]
    /\ player' = [player EXCEPT ![NextEntity] =
                     IF hasPlayer THEN DefaultPlayer ELSE NoPlayer]
    /\ UNCHANGED <<sceneRoot, marker, observers, graph, cameras, graphs, fired,
                   bodyRuns, meshDone, cameraDone, lastTarget, lastBody,
                   panicked, pointers, gizmos>>

\* The engine triggers SceneInstanceReady on scene root r; an observer
\* registered on r runs, and its commands are applied, within the trigger.
SceneInstanceReady(r) ==
    /\ started
    /\ r \in alive /\ sceneRoot[r] # NoScene /\ fired[r] < MaxFires
    /\ fired' = [fired EXCEPT ![r] = @ + 1]
    /\ IF r \in observers
          THEN /\ play_animation_when_ready(r)
               /\ bodyRuns' = [bodyRuns EXCEPT ![r] = @ + IF lastBody' THEN 1 ELSE 0]
          ELSE UNCHANGED <<player, graph, marker, panicked, lastTarget,
                           lastBody, bodyRuns>>
    /\ UNCHANGED <<alive, sceneRoot, observers, parent, cameras, graphs,
                   meshDone, cameraDone, pointers, gizmos>>

\* A plausible bug: an Update system polls for players instead of waiting
\* for the notification.
UpdateWithPolling ==
    /\ draw_mesh_intersections
    /\ player' = [e \in Entities |->
            IF player[e].has /\ \E r \in Entities :
                    marker[r].present /\ e \in Descendants(r)
                THEN Repeat(Play(player[e], FromClipIndex), FromClipIndex)
                ELSE player[e]]
    /\ UNCHANGED <<alive, sceneRoot, marker, observers, parent, graph, cameras,
                   graphs, fired, bodyRuns, meshDone, cameraDone, lastTarget,
                   lastBody, panicked>>

\* add_systems(Update, draw_mesh_intersections): the Update schedule.
UpdateSchedule ==
    /\ draw_mesh_intersections
    /\ UNCHANGED sceneVars

\* One frame: picking computes the pointers' results, then Update runs.
Frame(results) ==
    /\ pointers' = results
    /\ UpdateSchedule

\* ------------------------------------------------------------- Spec
FullHit == [position |-> 1, normal |-> 1]
AppFrameResults == {<<>>, <<<<FullHit>>>>}

Init ==
    /\ alive = {}
    /\ sceneRoot = [e \in Entities |-> NoScene]
    /\ marker = [e \in Entities |-> NoMarker]
    /\ observers = {}
    /\ parent = [e \in Entities |-> 0]
    /\ player = [e \in Entities |-> NoPlayer]
    /\ graph = [e \in Entities |-> 0]
    /\ cameras = {}
    /\ graphs = {}
    /\ fired = [e \in Entities |-> 0]
    /\ bodyRuns = [e \in Entities |-> 0]
    /\ meshDone = FALSE
    /\ cameraDone = FALSE
    /\ lastTarget = 0
    /\ lastBody = FALSE
    /\ panicked = FALSE
    /\ pointers = <<>>
    /\ gizmos = <<>>

AppFrame == started /\ \E results \in AppFrameResults : Frame(results)

Next ==
    \/ setup_mesh_and_animation
    \/ setup_camera_and_environment
    \/ \E r \in Entities, p \in Entities, hp \in BOOLEAN : SpawnSceneNode(r, p, hp)
    \/ \E r \in Entities : SceneInstanceReady(r)
    \/ AppFrame

Spec == Init /\ [][Next]_vars

\* ------------------------------------------------------------- SpecObs
\* The observer applied to any target of any world of ObsEntities entities:
\* any forest, any entity with or without a marker, with no player, a fresh
\* player or a player already in use under another graph.
ObsWorld == 1..ObsEntities
OtherIndex(i) == IF i = NumClips THEN 1 ELSE i + 1

\* A player in use: a one-shot of clip i that has finished, clip OtherIndex(i)
\* looping.
UsedPlayer(i) ==
    [has |-> TRUE,
     active |-> [j \in Indices |->
        IF j = i
            THEN [on |-> TRUE, repeat |-> "Never", completions |-> 1, seek |-> 1]
        ELSE IF j = OtherIndex(i)
            THEN [on |-> TRUE, repeat |-> "Forever", completions |-> 0, seek |-> 1]
        ELSE Inactive]]

\* Every forest over the world, its entities numbered parents first.
ObsForests == {f \in [ObsWorld -> 0..ObsEntities] : \A e \in ObsWorld : f[e] < e}

InitObs ==
    /\ alive = ObsWorld
    /\ \E idx \in Indices, marked \in SUBSET ObsWorld,
          kind \in [ObsWorld -> {"none", "fresh", "used"}] :
        /\ marker = [e \in Entities |->
                IF e \in marked THEN AnimationToPlay(1, idx) ELSE NoMarker]
        /\ sceneRoot = [e \in Entities |->
                IF e \in marked THEN FACTORY ELSE NoScene]
        /\ player = [e \in Entities |->
                IF e \notin ObsWorld \/ kind[e] = "none" THEN NoPlayer
                ELSE IF kind[e] = "fresh" THEN DefaultPlayer
                ELSE UsedPlayer(idx)]
        /\ graph = [e \in Entities |->
                IF e \in ObsWorld /\ kind[e] = "used" THEN 2 ELSE 0]
    /\ \E f \in ObsForests :
        parent = [e \in Entities |-> IF e \in ObsWorld THEN f[e] ELSE 0]
    /\ observers = {}
    /\ cameras = {}
    /\ graphs = {1, 2}
    /\ fired = [e \in Entities |-> 0]
    /\ bodyRuns = [e \in Entities |-> 0]
    /\ meshDone = TRUE
    /\ cameraDone = TRUE
    /\ lastTarget = 0
    /\ lastBody = FALSE
    /\ panicked = FALSE
    /\ pointers = <<>>
    /\ gizmos = <<>>

\* SceneInstanceReady triggered on target with the observer listening.
Trigger(target) ==
    /\ target \in alive
    /\ play_animation_when_ready(target)
    /\ UNCHANGED <<alive, sceneRoot, observers, parent, cameras, graphs, fired,
                   bodyRuns, meshDone, cameraDone, pointers, gizmos>>

NextObs == \E target \in Entities : Trigger(target)

SpecObs == InitObs /\ [][NextObs]_vars

\* ------------------------------------------------------------- SpecDraw
\* Frames over any pointer results: from one frame to the next the picking
\* backend adds or drops a pointer, or a hit of the last pointer.
PickingSteps ==
    (IF Len(pointers) < MaxPointers THEN {Append(pointers, <<>>)} ELSE {})
    \cup (IF pointers # <<>> THEN {SubSeq(pointers, 1, Len(pointers) - 1)} ELSE {})
    \cup (IF pointers # <<>> /\ Len(pointers[Len(pointers)]) < MaxHits
            THEN {[pointers EXCEPT ![Len(pointers)] = <<h>> \o @] : h \in HitValues}
            ELSE {})
    \cup (IF pointers # <<>> /\ pointers[Len(pointers)] # <<>>
            THEN {[pointers EXCEPT ![Len(pointers)] = Tail(@)]}
            ELSE {})

DrawFrame == \E results \in PickingSteps : Frame(results)

NextDraw == DrawFrame

SpecDraw == Init /\ [][NextDraw]_vars

\* ------------------------------------------------------------- properties
\* d lies strictly below t, by d's chain of parents.
RECURSIVE IsBelow(_, _)
IsBelow(d, t) ==
    IF parent[d] = 0 THEN FALSE ELSE parent[d] = t \/ IsBelow(parent[d], t)

\* Playback of clip i is started on e with infinite repeat.
Started(e, i) == player[e].active[i].on /\ player[e].active[i].repeat = "Forever"

\* e has no clip active and no graph handle.
Idle(e) == graph[e] = 0 /\ \A i \in Indices : ~player[e].active[i].on

\* The clips active on e with their repeat modes, and e's graph handle.
Playback(p, g) == <<[i \in Indices |-> <<p.active[i].on, p.active[i].repeat>>], g>>

\* C1: after the observer ran for a target carrying a marker, every entity
\* below the target, at any depth, that carries a player has the marker's
\* clip started with infinite repeat and carries the marker's graph handle.
C1_DescendantPlayersStarted ==
    (lastTarget # 0 /\ lastBody) =>
        \A d \in Entities :
            (IsBelow(d, lastTarget) /\ player[d].has) =>
                /\ Started(d, marker[lastTarget].index)
                /\ graph[d] = marker[lastTarget].graph_handle

C1_Witness ==
    /\ lastTarget # 0 /\ lastBody /\ marker[lastTarget].present
    /\ \E d \in Entities :
        /\ IsBelow(d, lastTarget) /\ parent[d] # lastTarget /\ player[d].has
        /\ Started(d, marker[lastTarget].index)
        /\ graph[d] = marker[lastTarget].graph_handle

\* C2: an observer run for a target that carries no marker changes no
\* player and no graph handle, whether or not players lie below the target.
C2_NoMarkerNoMutation ==
    [][\A t \in Entities :
          (lastTarget' = t /\ ~marker[t].present) =>
              (player' = player /\ graph' = graph)]_vars

C2_Witness ==
    /\ lastTarget # 0 /\ ~lastBody /\ ~marker[lastTarget].present
    /\ \E d \in Entities :
        IsBelow(d, lastTarget) /\ player[d] = DefaultPlayer /\ graph[d] = 0

\* C3: an observer run for a marker-carrying target with no player anywhere
\* below it (an empty subtree included) changes no component and panics not.
C3_NoPlayerNoMutation ==
    [][\A t \in Entities :
          (/\ lastTarget' = t
           /\ marker[t].present
           /\ \A d \in Entities : IsBelow(d, t) => ~player[d].has) =>
              (/\ player' = player /\ graph' = graph /\ marker' = marker
               /\ ~panicked')]_vars

C3_Witness ==
    /\ lastTarget # 0 /\ lastBody /\ marker[lastTarget].present /\ ~panicked
    /\ \E d \in Entities : IsBelow(d, lastTarget)
    /\ \A d \in Entities : IsBelow(d, lastTarget) => (~player[d].has /\ graph[d] = 0)

\* C4: a second notification for the same marker-carrying entity leaves every
\* player below it with the clips, repeat modes and graph handle the first
\* one gave it, and does not panic.
C4_RefireIdempotent ==
    [][\A r \in Entities :
          (/\ fired[r] >= 1 /\ fired'[r] = fired[r] + 1
           /\ r \in observers /\ marker[r].present) =>
              /\ ~panicked'
              /\ \A d \in Entities :
                    (IsBelow(d, r) /\ player[d].has) =>
                        Playback(player'[d], graph'[d]) = Playback(player[d], graph[d])]_vars

C4_Witness ==
    \E r \in Entities :
        /\ fired[r] >= 2 /\ bodyRuns[r] >= 2 /\ lastTarget = r /\ ~panicked
        /\ \E d \in Entities :
            /\ IsBelow(d, r) /\ player[d].has
            /\ Started(d, marker[r].index) /\ graph[d] = marker[r].graph_handle

\* C5 as stated: the observer's body runs at most once for an entity.
C5_BodyAtMostOnce == \A e \in Entities : bodyRuns[e] <= 1

\* C5, amended: the observer's body runs once for every notification
\* delivered to the marker-carrying entity, however many are delivered.
C5_BodyOncePerNotification ==
    \A e \in Entities : sceneRoot[e] = FACTORY => bodyRuns[e] = fired[e]

C5_Witness ==
    \E e \in Entities : sceneRoot[e] = FACTORY /\ fired[e] = 2 /\ bodyRuns[e] = 2

\* C6: a player with a clip active or a graph handle attached lies below a
\* marker-carrying entity whose notification has fired; until then, and for
\* ever if it never fires, every player stays idle.
C6_NothingStartsBeforeReady ==
    \A e \in Entities :
        (player[e].has /\ ~Idle(e)) =>
            \E r \in Entities :
                marker[r].present /\ fired[r] >= 1 /\ IsBelow(e, r)

C6_Witness ==
    /\ gizmos # <<>>
    /\ \E r \in Entities, e \in Entities :
        /\ marker[r].present /\ fired[r] = 0
        /\ IsBelow(e, r) /\ player[e].has /\ Idle(e)
    /\ \E c \in Entities : sceneRoot[c] = CORN /\ fired[c] >= 1

\* C7: once setup_mesh_and_animation has run, one entity carries the factory
\* SceneRoot, the only marker and the only observer, and another the corn
\* SceneRoot with no marker and no observer.
C7_MarkerWithItsSceneRoot ==
    meshDone =>
        \E f \in alive, c \in alive :
            /\ f # c
            /\ sceneRoot[f] = FACTORY /\ sceneRoot[c] = CORN
            /\ {e \in Entities : sceneRoot[e] # NoScene} = {f, c}
            /\ {e \in Entities : marker[e].present} = {f}
            /\ observers = {f}

C7_Witness ==
    /\ started
    /\ \E f \in observers :
        marker[f].present /\ sceneRoot[f] = FACTORY /\ fired[f] >= 1
    /\ \E c \in Entities : sceneRoot[c] = CORN /\ fired[c] >= 1

\* C8: once created, the marker stays on the factory entity with the graph
\* handle and the clip index it was created with.
C8_MarkerKept ==
    meshDone =>
        \E f \in Entities :
            /\ sceneRoot[f] = FACTORY
            /\ marker[f] = AnimationToPlay(1, FromClipIndex)
            /\ marker[f].graph_handle \in graphs

C8_Witness ==
    \E f \in Entities :
        /\ marker[f] = AnimationToPlay(1, FromClipIndex)
        /\ fired[f] = MaxFires /\ lastTarget = f
        /\ \E d \in Entities : IsBelow(d, f) /\ Started(d, FromClipIndex)

\* C9: an observer run changes the player and the graph handle of no entity
\* other than the players strictly below its target: not the target, not an
\* entity outside the subtree, not a descendant without a player.
C9_OnlyDescendantPlayers ==
    [][\A t \in Entities :
          lastTarget' = t =>
              \A e \in Entities :
                  (e = t \/ ~IsBelow(e, t) \/ ~player[e].has) =>
                      (player'[e] = player[e] /\ graph'[e] = graph[e])]_vars

C9_Witness ==
    /\ lastTarget # 0 /\ lastBody
    /\ player[lastTarget] = DefaultPlayer /\ graph[lastTarget] = 0
    /\ \E d \in Entities, o \in Entities :
        /\ IsBelow(d, lastTarget) /\ Started(d, marker[lastTarget].index)
        /\ o # lastTarget /\ ~IsBelow(o, lastTarget)
        /\ player[o] = DefaultPlayer /\ graph[o] = 0

\* C10: a frame's gizmos are one sphere and one arrow, in pointer order, for
\* each pointer of that frame whose nearest hit has a position and a normal,
\* and nothing else.
Qualifies(k) ==
    /\ pointers[k] # <<>>
    /\ pointers[k][1].position # 0
    /\ pointers[k][1].normal # 0
Rank(k) == Cardinality({j \in 1..k : Qualifies(j)})

C10_OneMarkerPerHit ==
    /\ Len(gizmos) = 2 * Rank(Len(pointers))
    /\ \A k \in 1..Len(pointers) :
        Qualifies(k) =>
            /\ gizmos[2 * Rank(k) - 1] = Sphere(pointers[k][1].position)
            /\ gizmos[2 * Rank(k)] =
                  Arrow(pointers[k][1].position, pointers[k][1].normal)

C10_Witness ==
    /\ Len(pointers) = 2 /\ Len(gizmos) = 2
    /\ Qualifies(2)
    /\ Len(pointers[1]) = 2
    /\ pointers[1][1].normal = 0
    /\ pointers[1][2] = FullHit
====
